---- MODULE Spec2Model ----
(***************************************************************************)
(* mass-crc32c: a producer (directory walk or path list) feeds a bounded   *)
(* channel of paths that jobCount worker goroutines drain; main closes the *)
(* channel after the producer returns, waits for the workers and prints    *)
(* the summary.  Modelled from src/mass_crc32c.go.                         *)
(***************************************************************************)
EXTENDS Integers, Sequences, FiniteSets, TLC

\* ---- bounds of the model ------------------------------------------------
MaxJobs == 2        \* largest -j value explored
MaxQueue == 2       \* largest -l value explored
MaxLines == 3       \* longest path list on stdin
MaxRoots == 2       \* most root arguments
MaxEntries == 1     \* most entries below the roots the enumerator delivers
MaxFileSize == 1    \* largest byte count a checksummed file has
MaxSummaries == 1   \* most SIGUSR1 summary requests in a run
MaxReadSize == 2    \* largest -s value explored
MaxPayload == 5     \* longest byte source handed to CRCReader
Kilo == 2           \* bytes per unit of -s (the source's 1024, scaled down)
MaxCalls == 4       \* most CRCReader calls the workers make on the buffer pool

Workers == 1..MaxJobs
\* the byte count of the file behind path p
Size(p) == p % (MaxFileSize + 1)

VARIABLES
    pc,                  \* position of the main goroutine
    mode,                \* "list" (flag.NArg() == 0) or "walk"
    HandlerFunc,         \* mc.HandlerFunc: "fileHandler" or an injected "testHandler"
    jobCount,            \* -j
    queueLength,         \* -l, capacity of pathQueueG
    nArgs,               \* len(flag.Args())
    pathQueueG,          \* buffered content of the channel
    closed,              \* the channel has been closed
    closeCount,          \* number of close(pathQueueG) calls
    wg,                  \* sync.WaitGroup counter
    interrupted,         \* mc.interrupted
    spawned,             \* loop variable i of startup
    wpc,                 \* per worker: "unborn", "recv", "handle", "exited"
    wpath,               \* per worker: the path it holds (0 = none)
    fileCount, fileErrorCount, directoryErrorCount, ignoredFilesCount,
    totalDataComputed,
    stdOut,              \* result lines <<path, size>>
    errOut,              \* error sink lines <<tag, path>>
    debugOut,            \* notices on the debug sink
    summaries,           \* on-demand summaries rendered so far
    finalSummary,        \* counters read by the final printSummary, <<>> before
    sent,                \* paths put on the channel, in send order
    pending,             \* path the producer is sending (0 = none)
    sendErr,             \* lineScanner.Err() is non-nil while the token is sent
    nextPath,            \* lines scanned / entries enumerated so far
    argIdx,              \* root arguments whose walk has started
    walking,             \* a filepath.WalkDir call is in progress
    observed,            \* walkHandler has seen interrupted set
    stdinFailed,         \* the path-list source hit a read error
    entry,               \* [kind, err] of the latest walkHandler call
    received,            \* paths in the order the workers received them
    handled,             \* handler invocations [path, outcome, ret], in order
    readSizeG,           \* -s, the read buffer is readSizeG*Kilo bytes
    payload,             \* content of the byte source f handed to CRCReader
    fp,                  \* bytes of payload the source has delivered
    rpc,                 \* CRCReader: "idle", "enter", "loop", "returned"
    checksum,            \* CRCReader's running checksum
    fileSize,            \* CRCReader's running byte count
    returned,            \* what CRCReader returned: [str, size, err]
    lastRead,            \* <<n, err>> of the latest f.Read(buf)
    calls,               \* f.Read calls made
    dataReads,           \* f.Read calls that returned n > 0
    fullReads,           \* every read so far filled the buffer or took the
                         \* whole remainder, and EOF came with 0 bytes
    bufferPool,          \* mc.bufferPool: the buffers it holds
    allocated,           \* buffers the pool's New has made (buffers 1..allocated)
    checkedOut,          \* buffers handed out by Get and not yet Put back
    cpc,                 \* per worker, in CRCReader: "idle", "get", "reading"
    buf,                 \* per worker: CRCReader's local buf (0 = none)
    crcCalls,            \* CRCReader calls started
    lastExit             \* per worker: how its latest CRCReader call ended

vars == <<pc, mode, HandlerFunc, jobCount, queueLength, nArgs,
          pathQueueG, closed, closeCount, wg, interrupted, spawned, wpc, wpath,
          fileCount, fileErrorCount, directoryErrorCount, ignoredFilesCount,
          totalDataComputed, stdOut, errOut, debugOut, summaries, finalSummary,
          sent, pending, sendErr, nextPath, argIdx, walking, observed,
          stdinFailed, entry, received, handled, readSizeG, payload, fp, rpc,
          checksum, fileSize, returned, lastRead, calls, dataReads, fullReads,
          bufferPool, allocated, checkedOut, cpc, buf, crcCalls, lastExit>>

flags == <<mode, HandlerFunc, jobCount, queueLength, nArgs>>
\* one CRCReader call and its byte source
reader == <<readSizeG, payload, fp, rpc, checksum, fileSize, returned, lastRead,
            calls, dataReads, fullReads>>
\* the buffer pool and the workers' CRCReader calls on it
pool == <<bufferPool, allocated, checkedOut, cpc, buf, crcCalls, lastExit>>
\* what no step of the pipeline changes: the flags, and the inside of a
\* CRCReader call, which a worker's step takes as one outcome of pathToCRC
config == <<flags, reader, pool>>
counters == <<fileCount, fileErrorCount, directoryErrorCount,
              ignoredFilesCount, totalDataComputed>>
sinks == <<stdOut, errOut, debugOut, summaries, finalSummary>>
producer == <<sent, pending, sendErr, nextPath, argIdx, walking, observed,
              stdinFailed, entry>>
workers == <<wpc, wpath, received, handled>>
channel == <<pathQueueG, closed, closeCount>>

\* ---- helpers ------------------------------------------------------------
\* the process is running: a panic or the return of main ends every goroutine
Alive == pc \notin {"panic", "exit"}

\* initMassCRC32C: fresh channel, zero counters, default handler; the flags
\* and the input are the run's parameters.
InitPipeline ==
    /\ pc = "startup"
    /\ mode \in {"list", "walk"}
    /\ HandlerFunc \in {"fileHandler", "testHandler"}
    /\ jobCount \in 1..MaxJobs
    /\ queueLength \in 1..MaxQueue
    /\ nArgs \in (IF mode = "walk" THEN 1..MaxRoots ELSE {0})
    /\ pathQueueG = <<>>
    /\ closed = FALSE
    /\ closeCount = 0
    /\ wg = 0
    /\ interrupted = FALSE
    /\ spawned = 0
    /\ wpc = [w \in Workers |-> "unborn"]
    /\ wpath = [w \in Workers |-> 0]
    /\ fileCount = 0
    /\ fileErrorCount = 0
    /\ directoryErrorCount = 0
    /\ ignoredFilesCount = 0
    /\ totalDataComputed = 0
    /\ stdOut = <<>>
    /\ errOut = <<>>
    /\ debugOut = <<>>
    /\ summaries = 0
    /\ finalSummary = <<>>
    /\ sent = <<>>
    /\ pending = 0
    /\ sendErr = FALSE
    /\ nextPath = 0
    /\ argIdx = 0
    /\ walking = FALSE
    /\ observed = FALSE
    /\ stdinFailed = FALSE
    /\ entry = [kind |-> "none", err |-> FALSE]
    /\ received = <<>>
    /\ handled = <<>>

\* the state of a CRCReader call before it has read anything
InitReader ==
    /\ fp = 0
    /\ checksum = <<>>
    /\ fileSize = 0
    /\ returned = [str |-> <<>>, size |-> 0, err |-> "nil"]
    /\ lastRead = <<0, "nil">>
    /\ calls = 0
    /\ dataReads = 0
    /\ fullReads = TRUE

\* sync.Pool{New: ...}: an empty pool, no worker inside CRCReader
InitPool ==
    /\ bufferPool = {}
    /\ allocated = 0
    /\ checkedOut = {}
    /\ cpc = [w \in Workers |-> "idle"]
    /\ buf = [w \in Workers |-> 0]
    /\ crcCalls = 0
    /\ lastExit = [w \in Workers |-> "none"]

\* a run of the program; the reads inside pathToCRC are not stepped through
Init ==
    /\ InitPipeline
    /\ InitReader
    /\ InitPool
    /\ readSizeG = 1
    /\ payload = <<>>
    /\ rpc = "idle"

\* ---- startup --------------------------------------------------------------
\* bound of the loop `for i := 0; i < jobCount; i++`
SpawnCountOff(n) == n - 1
SpawnCount(n) == n

\* one iteration of startup's loop: wg.Add(1); go mc.queueHandler(...)
StartupSpawn ==
    /\ pc = "startup"
    /\ spawned < SpawnCount(jobCount)
    /\ spawned' = spawned + 1
    /\ wg' = wg + 1
    /\ wpc' = [wpc EXCEPT ![spawned + 1] = "recv"]
    /\ UNCHANGED <<pc, config, channel, interrupted, wpath, received, handled,
                   counters, sinks, producer>>

\* the loop ends; main goes on to signalToSummary and the producer
StartupDone ==
    /\ pc = "startup"
    /\ spawned >= SpawnCount(jobCount)
    /\ pc' = IF mode = "list" THEN "readFileList" ELSE "walkDirectories"
    /\ UNCHANGED <<config, channel, wg, interrupted, spawned, workers,
                   counters, sinks, producer>>

\* ---- the channel ---------------------------------------------------------
\* a send proceeds only while the buffer has room: make(chan string, queueLength)
CanSendUnbounded(q, cap) == TRUE
CanSend(q, cap) == Len(q) < cap

\* a receive removes the head of the buffer
DequeueKeep(q) == q
Dequeue(q) == Tail(q)

\* the value a receive yields: the oldest one buffered
Back(q) == q[Len(q)]
Front(q) == Head(q)

\* ---- pathToCRC / fileHandler ----------------------------------------------
\* what the file system does to one path: os.Open fails, or the file opens and
\* CRCReader either reaches end-of-stream after `size` bytes or meets a read
\* error; Close of an opened file may fail as well.
PathOutcomes ==
    {[open |-> FALSE, read |-> FALSE, closeOk |-> FALSE]}
    \cup [open : {TRUE}, read : BOOLEAN, closeOk : BOOLEAN]

\* pathToCRC: the error and byte count it returns, and whether its deferred
\* file.Close() printed an error line (Close of the nil *os.File left by a
\* failed Open returns ErrInvalid, so a failed open always prints one).
pathToCRC(p, o) ==
    [err |-> ~(o.open /\ o.read),
     fileSize |-> IF o.open /\ o.read THEN Size(p) ELSE 0,
     closeLine |-> ~o.closeOk]

\* atomic.AddUint64(&counter, delta)
AddUint64Store(c, delta) == delta
AddUint64(c, delta) == c + delta

\* fileHandler returns nil on both branches
fileHandlerRetErr(err) == IF err THEN "err" ELSE "nil"
fileHandlerRet(err) == "nil"

\* an injected handler (mc.HandlerFunc = tb.testHandler): it meets no error,
\* meets an injected error it handles itself and returns nil, or returns a
\* non-nil error
TestOutcomes == {"ok", "handled", "returned"}
testHandlerRet(o) == IF o = "returned" THEN "err" ELSE "nil"

\* queueHandler: `if err != nil { break }`
HandlerBreaksNever(ret) == FALSE
HandlerBreaks(ret) == ret # "nil"

\* ---- queueHandler -----------------------------------------------------------
\* `for path := range mc.pathQueueG`: take the head of the buffer
Receive(w) ==
    /\ Alive
    /\ wpc[w] = "recv"
    /\ pathQueueG # <<>>
    /\ wpath' = [wpath EXCEPT ![w] = Front(pathQueueG)]
    /\ received' = Append(received, Front(pathQueueG))
    /\ pathQueueG' = Dequeue(pathQueueG)
    /\ wpc' = [wpc EXCEPT ![w] = "handle"]
    /\ UNCHANGED <<pc, config, closed, closeCount, wg, interrupted, spawned,
                   handled, counters, sinks, producer>>

\* `range` over a channel ends when the channel is closed and its buffer empty
RangeEndsOnClose(q, c) == c
RangeEnds(q, c) == c /\ q = <<>>

\* the range loop ends on a closed, empty channel; deferred wg.Done()
ExitOnClosed(w) ==
    /\ Alive
    /\ wpc[w] = "recv"
    /\ RangeEnds(pathQueueG, closed)
    /\ wpc' = [wpc EXCEPT ![w] = "exited"]
    /\ wg' = wg - 1
    /\ UNCHANGED <<pc, config, channel, interrupted, spawned, wpath, received,
                   handled, counters, sinks, producer>>

\* after handler(path): back to the receive, or break and wg.Done()
AfterHandler(w, ret) ==
    /\ wpath' = [wpath EXCEPT ![w] = 0]
    /\ IF HandlerBreaks(ret)
          THEN /\ wpc' = [wpc EXCEPT ![w] = "exited"]
               /\ wg' = wg - 1
          ELSE /\ wpc' = [wpc EXCEPT ![w] = "recv"]
               /\ wg' = wg

\* err := handler(path), then the rest of the loop body.  With fileHandler the
\* step is pathToCRC, the result or error line and the atomic counter updates;
\* an injected handler touches neither the sinks nor the counters.
Handle(w) ==
    /\ Alive
    /\ wpc[w] = "handle"
    /\ IF HandlerFunc = "fileHandler"
       THEN \E o \in PathOutcomes :
         LET p == wpath[w]
             r == pathToCRC(p, o)
             closeLines == IF r.closeLine THEN <<<<"close", p>>>> ELSE <<>>
         IN /\ IF r.err
                  THEN /\ errOut' = errOut \o closeLines \o <<<<"file", p>>>>
                       /\ fileErrorCount' = AddUint64(fileErrorCount, 1)
                       /\ UNCHANGED <<stdOut, fileCount, totalDataComputed>>
                  ELSE /\ errOut' = errOut \o closeLines
                       /\ stdOut' = Append(stdOut, <<p, r.fileSize>>)
                       /\ fileCount' = AddUint64(fileCount, 1)
                       /\ totalDataComputed' = AddUint64(totalDataComputed, r.fileSize)
                       /\ UNCHANGED fileErrorCount
            /\ handled' = Append(handled,
                   [path |-> p,
                    outcome |-> IF ~o.open THEN "openfail"
                                ELSE IF ~o.read THEN "readfail" ELSE "ok",
                    ret |-> fileHandlerRet(r.err)])
            /\ AfterHandler(w, fileHandlerRet(r.err))
       ELSE \E o \in TestOutcomes :
            /\ handled' = Append(handled,
                   [path |-> wpath[w], outcome |-> o,
                    ret |-> testHandlerRet(o)])
            /\ AfterHandler(w, testHandlerRet(o))
            /\ UNCHANGED <<stdOut, errOut, fileCount, fileErrorCount,
                           totalDataComputed>>
    /\ UNCHANGED <<pc, config, channel, interrupted, spawned, received,
                   directoryErrorCount, ignoredFilesCount, debugOut, summaries,
                   finalSummary, producer>>

\* ---- the producers ----------------------------------------------------------
\* `mc.pathQueueG <- path`: blocks while the buffer is full, panics on a closed
\* channel.  In readFileList the send is followed by the lineScanner.Err()
\* check, which reports the error and breaks.
Send ==
    /\ pc = "send"
    /\ IF closed
       THEN /\ pc' = "panic"
            /\ UNCHANGED <<pathQueueG, sent, pending, sendErr, errOut>>
       ELSE /\ CanSend(pathQueueG, queueLength)
            /\ pathQueueG' = Append(pathQueueG, pending)
            /\ sent' = Append(sent, pending)
            /\ pending' = 0
            /\ sendErr' = FALSE
            /\ IF mode = "walk"
               THEN /\ pc' = "walkDirectories"
                    /\ UNCHANGED errOut
               ELSE IF sendErr
                    THEN /\ errOut' = Append(errOut, <<"stdin", 0>>)
                         /\ pc' = "tearDown"
                    ELSE /\ pc' = "readFileList"
                         /\ UNCHANGED errOut
    /\ UNCHANGED <<config, closed, closeCount, wg, interrupted, spawned,
                   workers, counters, stdOut, debugOut, summaries,
                   finalSummary, nextPath, argIdx, walking, observed,
                   stdinFailed, entry>>

\* lineScanner.Scan() in readFileList.  The scanner hands out the next line
\* (possibly with its read error already set, when the failed read left data
\* in its buffer), or returns false: at end of input, or on a read error with
\* nothing buffered.
ScanResults ==
    {"eof", "fail"} \cup (IF nextPath < MaxLines THEN {"token", "tokenErr"} ELSE {})

Scan ==
    /\ pc = "readFileList"
    /\ \E res \in ScanResults :
         IF res \in {"eof", "fail"}
         THEN /\ stdinFailed' = (res = "fail")
              /\ pc' = "tearDown"
              /\ UNCHANGED <<pending, sendErr, nextPath>>
         ELSE /\ nextPath' = nextPath + 1
              /\ pending' = nextPath + 1
              /\ sendErr' = (res = "tokenErr")
              /\ stdinFailed' = (res = "tokenErr")
              /\ pc' = "send"
    /\ UNCHANGED <<config, channel, wg, interrupted, spawned, workers,
                   counters, sinks, sent, argIdx, walking, observed, entry>>

\* mc.interrupted is read without synchronisation while the signal goroutine
\* writes it: a read racing with the write returns either value; once the
\* producer has seen true it keeps seeing true.
ReadInterrupted ==
    IF observed THEN {TRUE}
    ELSE IF interrupted THEN {TRUE, FALSE} ELSE {FALSE}

\* the entries filepath.WalkDir hands to the callback.  It reports an error in
\* two cases only: the Lstat of a root fails (nil DirEntry, err), or the
\* ReadDir of a directory fails (second call for that directory, with err).
RootEntries ==
    {[kind |-> "nil", err |-> TRUE]}
    \cup [kind : {"dir", "regular", "other"}, err : {FALSE}]
InnerEntries ==
    [kind : {"dir"}, err : BOOLEAN]
    \cup [kind : {"regular", "other"}, err : {FALSE}]

\* walkHandler: `if mc.interrupted { return io.EOF }`
walkHandlerInterruptNil(seen) == "nil"
walkHandlerInterrupt(seen) == IF seen THEN "EOF" ELSE "nil"

\* walkDirectories: `if err == io.EOF {...; break} else if err != nil {...; break}`
WalkBreaksNever(ret) == FALSE
WalkBreaks(ret) == ret # "nil"

\* one callback of filepath.WalkDir: walkHandler(path, dir, err), and, when it
\* returns io.EOF, the return of WalkDir and the break of walkDirectories.
WalkStep ==
    /\ pc = "walkDirectories"
    /\ IF walking THEN nextPath - argIdx < MaxEntries ELSE argIdx < nArgs
    /\ \E e \in (IF walking THEN InnerEntries ELSE RootEntries),
          seen \in ReadInterrupted :
         LET p == nextPath + 1
             ret == walkHandlerInterrupt(seen)
         IN /\ nextPath' = p
            /\ entry' = e
            /\ argIdx' = IF walking THEN argIdx ELSE argIdx + 1
            /\ observed' = (observed \/ seen)
            /\ IF seen
               THEN /\ walking' = (ret = "nil")
                    /\ IF WalkBreaks(ret)
                       THEN /\ errOut' = Append(errOut, <<"interrupted", 0>>)
                            /\ pc' = "tearDown"
                       ELSE /\ pc' = IF ret # "nil" /\ argIdx' = nArgs
                                     THEN "tearDown" ELSE "walkDirectories"
                            /\ UNCHANGED errOut
                    /\ UNCHANGED <<pending, debugOut, counters>>
               ELSE /\ walking' = TRUE
                    /\ IF e.err
                       THEN IF e.kind = "nil"
                            THEN /\ pc' = "panic"   \* dir.IsDir() on a nil DirEntry
                                 /\ UNCHANGED <<pending, errOut, debugOut, counters>>
                            ELSE IF e.kind = "dir"
                            THEN /\ errOut' = Append(errOut, <<"dir", p>>)
                                 /\ directoryErrorCount' = AddUint64(directoryErrorCount, 1)
                                 /\ UNCHANGED <<pc, pending, debugOut, fileCount,
                                                fileErrorCount, ignoredFilesCount,
                                                totalDataComputed>>
                            ELSE /\ errOut' = Append(errOut, <<"fileerr", p>>)
                                 /\ fileErrorCount' = AddUint64(fileErrorCount, 1)
                                 /\ UNCHANGED <<pc, pending, debugOut, fileCount,
                                                directoryErrorCount,
                                                ignoredFilesCount,
                                                totalDataComputed>>
                       ELSE IF e.kind = "dir"
                            THEN /\ debugOut' = Append(debugOut, "entering")
                                 /\ UNCHANGED <<pc, pending, errOut, counters>>
                            ELSE IF e.kind = "other"
                            THEN /\ debugOut' = Append(debugOut, "ignoring")
                                 /\ ignoredFilesCount' = AddUint64(ignoredFilesCount, 1)
                                 /\ UNCHANGED <<pc, pending, errOut, fileCount,
                                                fileErrorCount,
                                                directoryErrorCount,
                                                totalDataComputed>>
                            ELSE /\ pending' = p
                                 /\ pc' = "send"
                                 /\ UNCHANGED <<errOut, debugOut, counters>>
    /\ UNCHANGED <<config, channel, wg, interrupted, spawned, workers, stdOut,
                   summaries, finalSummary, sent, sendErr, stdinFailed>>

\* filepath.WalkDir returns nil: next root argument, or the end of the loop
WalkEnd ==
    /\ pc = "walkDirectories"
    /\ walking
    /\ walking' = FALSE
    /\ pc' = IF argIdx = nArgs THEN "tearDown" ELSE "walkDirectories"
    /\ UNCHANGED <<config, channel, wg, interrupted, spawned, workers,
                   counters, sinks, sent, pending, sendErr, nextPath, argIdx,
                   observed, stdinFailed, entry>>

\* ---- tearDown and the final summary --------------------------------------------
\* main calls tearDown only after the producer call has returned
TearDownStartsEarly(p) == p \in {"tearDown", "send"}
TearDownStarts(p) == p = "tearDown"

\* close(mc.pathQueueG); closing a closed channel panics
TearDownClose ==
    /\ TearDownStarts(pc)
    /\ IF closed
       THEN /\ pc' = "panic"
            /\ UNCHANGED <<closed, closeCount>>
       ELSE /\ closed' = TRUE
            /\ closeCount' = closeCount + 1
            /\ pc' = "wgWait"
    /\ UNCHANGED <<config, pathQueueG, wg, interrupted, spawned, workers,
                   counters, sinks, producer>>

\* mc.wg.Wait() returns when the counter is zero
WaitReturnsAlways(n) == TRUE
WaitReturns(n) == n = 0

TearDownWait ==
    /\ pc = "wgWait"
    /\ WaitReturns(wg)
    /\ pc' = "printSummary"
    /\ UNCHANGED <<config, channel, wg, interrupted, spawned, workers,
                   counters, sinks, producer>>

\* mc.printSummary(mc.startTime) at the end of main, then main returns
PrintFinalSummary ==
    /\ pc = "printSummary"
    /\ finalSummary' = <<counters>>
    /\ pc' = "exit"
    /\ UNCHANGED <<config, channel, wg, interrupted, spawned, workers,
                   counters, stdOut, errOut, debugOut, summaries, producer>>

\* ---- signals ---------------------------------------------------------------------
\* os.Interrupt: the goroutine of initMassCRC32C sets the flag once and ends
InterruptToggle ==
    /\ Alive
    /\ interrupted' = ~interrupted
    /\ UNCHANGED <<pc, config, channel, wg, spawned, workers, counters, sinks,
                   producer>>

Interrupt ==
    /\ Alive
    /\ ~interrupted
    /\ interrupted' = TRUE
    /\ UNCHANGED <<pc, config, channel, wg, spawned, workers, counters, sinks,
                   producer>>

\* SIGUSR1 after signalToSummary: printSummary renders the counters on the
\* debug sink (counted in summaries)
SummaryRequestResets ==
    /\ Alive
    /\ pc # "startup"
    /\ summaries < MaxSummaries
    /\ summaries' = summaries + 1
    /\ fileCount' = 0
    /\ UNCHANGED <<pc, config, channel, wg, interrupted, spawned, workers,
                   fileErrorCount, directoryErrorCount, ignoredFilesCount,
                   totalDataComputed, stdOut, errOut, debugOut, finalSummary,
                   producer>>

SummaryRequest ==
    /\ Alive
    /\ pc # "startup"
    /\ summaries < MaxSummaries
    /\ summaries' = summaries + 1
    /\ UNCHANGED <<pc, config, channel, wg, interrupted, spawned, workers,
                   counters, stdOut, errOut, debugOut, finalSummary, producer>>

\* ---- specification ---------------------------------------------------------------
Main ==
    \/ StartupSpawn
    \/ StartupDone
    \/ Scan
    \/ WalkStep
    \/ WalkEnd
    \/ Send
    \/ TearDownClose
    \/ TearDownWait
    \/ PrintFinalSummary

Worker(w) ==
    \/ Receive(w)
    \/ Handle(w)
    \/ ExitOnClosed(w)

Next ==
    \/ Main
    \/ \E w \in Workers : Worker(w)
    \/ Interrupt
    \/ SummaryRequest

Spec == Init /\ [][Next]_vars

\* the Go scheduler runs every runnable goroutine; signals may never arrive
Fairness == WF_vars(Main) /\ \A w \in Workers : WF_vars(Worker(w))
FairSpec == Init /\ [][Next]_vars /\ Fairness

\* runs of the program as main starts it: HandlerFunc is fileHandler
InitProd == Init /\ HandlerFunc = "fileHandler"
FairSpecProd == InitProd /\ [][Next]_vars /\ Fairness

\* ---- CRCReader ---------------------------------------------------------------
\* A uint32 is a sequence of 32 bits, most significant first; a byte is 0..255.
Bits(n, w) == SubSeq([i \in 1..w |-> (n \div (2 ^ (w - i))) % 2], 1, w)
Zero(w) == SubSeq([i \in 1..w |-> 0], 1, w)

RECURSIVE BitsToNat(_)
BitsToNat(b) ==
    IF b = <<>> THEN 0
    ELSE 2 * BitsToNat(SubSeq(b, 1, Len(b) - 1)) + b[Len(b)]

Xor(a, b) == SubSeq([i \in DOMAIN b |-> (a[i] + b[i]) % 2], 1, Len(b))
Not(a) == SubSeq([i \in DOMAIN a |-> 1 - a[i]], 1, Len(a))
\* a >> k
ShiftRight(a, k) == Zero(k) \o SubSeq(a, 1, Len(a) - k)
\* byte(a)
LowByte(a) == SubSeq(a, Len(a) - 7, Len(a))

\* crc32.Castagnoli = 0x82f63b78
Castagnoli == Bits(33526, 16) \o Bits(15224, 16)

\* one round of the table construction: crc = crc>>1, xor poly if bit 0 was set
TableRound(crc) ==
    IF crc[32] = 1 THEN Xor(ShiftRight(crc, 1), Castagnoli)
    ELSE ShiftRight(crc, 1)

RECURSIVE TableRounds(_, _)
TableRounds(crc, k) == IF k = 0 THEN crc ELSE TableRounds(TableRound(crc), k - 1)

\* crc32cTable[i], with the index i given as 8 bits
crc32cTable(i) == TableRounds(Zero(24) \o i, 8)

\* crc = tab[byte(crc)^v] ^ (crc >> 8), for every byte v of p
RECURSIVE simpleUpdate(_, _)
simpleUpdate(crc, p) ==
    IF p = <<>> THEN crc
    ELSE simpleUpdate(Xor(crc32cTable(Xor(LowByte(crc), Bits(Head(p), 8))),
                          ShiftRight(crc, 8)),
                      Tail(p))

\* crc32.Update(crc, crc32cTable, p)
Update(crc, p) == Not(simpleUpdate(Not(crc), p))

\* crc32.Checksum([]byte(""), crc32cTable)
Checksum(data) == Update(Zero(32), data)

\* binary.BigEndian.PutUint32(b, checksum)
PutUint32(c) == [k \in 1..4 |-> BitsToNat(SubSeq(c, 8 * k - 7, 8 * k))]

\* the alphabet of base64.StdEncoding
encodeStd ==
    << "A", "B", "C", "D", "E", "F", "G", "H", "I", "J", "K", "L", "M",
       "N", "O", "P", "Q", "R", "S", "T", "U", "V", "W", "X", "Y", "Z",
       "a", "b", "c", "d", "e", "f", "g", "h", "i", "j", "k", "l", "m",
       "n", "o", "p", "q", "r", "s", "t", "u", "v", "w", "x", "y", "z",
       "0", "1", "2", "3", "4", "5", "6", "7", "8", "9", "+", "/" >>

Sextet(val, k) == encodeStd[((val \div (64 ^ (3 - k))) % 64) + 1]

\* base64.StdEncoding.EncodeToString(b): a string is the sequence of its
\* characters; three bytes give four characters, a last single byte two
\* characters and "==", a last pair three characters and "="
RECURSIVE EncodeToString(_)
EncodeToString(b) ==
    IF b = <<>> THEN <<>>
    ELSE IF Len(b) = 1
         THEN LET val == b[1] * 65536
              IN <<Sextet(val, 0), Sextet(val, 1), "=", "=">>
    ELSE IF Len(b) = 2
         THEN LET val == b[1] * 65536 + b[2] * 256
              IN <<Sextet(val, 0), Sextet(val, 1), Sextet(val, 2), "=">>
    ELSE LET val == b[1] * 65536 + b[2] * 256 + b[3]
         IN <<Sextet(val, 0), Sextet(val, 1), Sextet(val, 2), Sextet(val, 3)>>
                \o EncodeToString(SubSeq(b, 4, Len(b)))

\* the string CRCReader returns for a final checksum
Encode(c) == EncodeToString(PutUint32(c))

\* a byte source holds any bytes; two values are told apart by the checksum
ByteValues == {0, 1}
RECURSIVE SeqsUpTo(_, _)
SeqsUpTo(S, n) ==
    IF n = 0 THEN {<<>>}
    ELSE LET shorter == SeqsUpTo(S, n - 1)
         IN shorter \cup {Append(q, x) : q \in {r \in shorter : Len(r) = n - 1}, x \in S}

Min(a, b) == IF a < b THEN a ELSE b
Ceil(a, b) == (a + b - 1) \div b

\* the pool's New: make([]byte, readSizeG*Kilo)
BufLenFixed(rs) == Kilo
BufLen(rs) == rs * Kilo

\* `return "", 0, err` on a read failure
ReadFailedPartial(cs, fs, e) == [str |-> Encode(cs), size |-> fs, err |-> e]
ReadFailed(cs, fs, e) == [str |-> <<>>, size |-> 0, err |-> e]

\* CRCReader is called as the test calls it: InitMassCRC32C(1, readSize) and a
\* reader over some payload
InitCRC ==
    /\ InitPipeline
    /\ mode = "list"
    /\ HandlerFunc = "fileHandler"
    /\ jobCount = 1
    /\ InitReader
    /\ InitPool
    /\ readSizeG \in 1..MaxReadSize
    /\ payload \in SeqsUpTo(ByteValues, MaxPayload)
    /\ rpc = "enter"

pipeline == <<pc, flags, channel, wg, interrupted, spawned, workers, counters,
              sinks, producer>>

\* entry of CRCReader: a buffer from the pool, the checksum of the empty input
CRCReaderEnter ==
    /\ rpc = "enter"
    /\ checksum' = Checksum(<<>>)
    /\ fileSize' = 0
    /\ rpc' = "loop"
    /\ UNCHANGED <<pipeline, pool, readSizeG, payload, fp, returned, lastRead, calls,
                   dataReads, fullReads>>

\* one iteration of the loop: n, err := f.Read(buf) and the switch on err.
\* The source hands out up to len(buf) of its remaining bytes; it reports
\* io.EOF only at the end of its content, with the last bytes or with none; a
\* read without error returns at least one byte; any read may fail.
CRCReaderRead ==
    /\ rpc = "loop"
    /\ \E n \in 0..Min(BufLen(readSizeG), Len(payload) - fp),
          e \in {"nil", "EOF", "fail"} :
         /\ e = "EOF" => fp + n = Len(payload)
         /\ e = "nil" => n >= 1
         /\ fp' = fp + n
         /\ lastRead' = <<n, e>>
         /\ calls' = calls + 1
         /\ dataReads' = IF n > 0 THEN dataReads + 1 ELSE dataReads
         /\ fullReads' = /\ fullReads
                         /\ n = Min(BufLen(readSizeG), Len(payload) - fp)
                         /\ e = "EOF" => n = 0
         /\ IF e = "nil"
            THEN /\ checksum' = Update(checksum, SubSeq(payload, fp + 1, fp + n))
                 /\ fileSize' = AddUint64(fileSize, n)
                 /\ UNCHANGED <<rpc, returned>>
            ELSE /\ returned' = IF e = "EOF"
                           THEN [str |-> Encode(checksum), size |-> fileSize,
                                 err |-> "nil"]
                           ELSE ReadFailed(checksum, fileSize, e)
                 /\ rpc' = "returned"
                 /\ UNCHANGED <<checksum, fileSize>>
    /\ UNCHANGED <<pipeline, pool, readSizeG, payload>>

NextCRC ==
    \/ CRCReaderEnter
    \/ CRCReaderRead

SpecCRC == InitCRC /\ [][NextCRC]_vars

\* ---- the buffer pool ---------------------------------------------------------
\* The workers' CRCReader calls, seen from mc.bufferPool: each call takes a
\* buffer with Get, reads, and puts the buffer back in its deferred function.
InitWorkers ==
    /\ InitPipeline
    /\ mode = "list"
    /\ HandlerFunc = "fileHandler"
    /\ queueLength = 1
    /\ InitReader
    /\ readSizeG = 1
    /\ payload = <<>>
    /\ rpc = "idle"
    /\ InitPool

\* pathToCRC calls mc.CRCReader(file) for the path the worker holds
CRCReaderCall(w) ==
    /\ w <= jobCount
    /\ cpc[w] = "idle"
    /\ crcCalls < MaxCalls
    /\ crcCalls' = crcCalls + 1
    /\ cpc' = [cpc EXCEPT ![w] = "get"]
    /\ UNCHANGED <<pipeline, reader, bufferPool, allocated, checkedOut, buf,
                   lastExit>>

\* what Get can return: a buffer the pool holds, or a new one from New
GetCandidatesPooled(held, fresh) == held
GetCandidates(held, fresh) == held \cup {fresh}

\* buf := mc.bufferPool.Get().([]byte)
PoolGet(w) ==
    /\ cpc[w] = "get"
    /\ \E b \in GetCandidates(bufferPool, allocated + 1) :
         /\ buf' = [buf EXCEPT ![w] = b]
         /\ bufferPool' = bufferPool \ {b}
         /\ allocated' = IF b \in bufferPool THEN allocated ELSE allocated + 1
         /\ checkedOut' = checkedOut \cup {b}
    /\ cpc' = [cpc EXCEPT ![w] = "reading"]
    /\ UNCHANGED <<pipeline, reader, crcCalls, lastExit>>

\* `defer func() { mc.bufferPool.Put(buf) }()` runs on every return
DeferredPutOnSuccess(exit) == exit = "EOF"
DeferredPut(exit) == TRUE

\* CRCReader returns, at io.EOF or on a read error, and its deferred function
\* runs
CRCReaderReturn(w) ==
    /\ cpc[w] = "reading"
    /\ \E exit \in {"EOF", "fail"} :
         /\ lastExit' = [lastExit EXCEPT ![w] = exit]
         /\ IF DeferredPut(exit)
            THEN /\ bufferPool' = bufferPool \cup {buf[w]}
                 /\ checkedOut' = checkedOut \ {buf[w]}
            ELSE UNCHANGED <<bufferPool, checkedOut>>
    /\ buf' = [buf EXCEPT ![w] = 0]
    /\ cpc' = [cpc EXCEPT ![w] = "idle"]
    /\ UNCHANGED <<pipeline, reader, allocated, crcCalls>>

\* sync.Pool may drop a buffer it holds at any time (garbage collection)
PoolDrop ==
    /\ \E b \in bufferPool : bufferPool' = bufferPool \ {b}
    /\ UNCHANGED <<pipeline, reader, allocated, checkedOut, cpc, buf, crcCalls,
                   lastExit>>

NextPool ==
    \/ \E w \in Workers : CRCReaderCall(w)
    \/ \E w \in Workers : PoolGet(w)
    \/ \E w \in Workers : CRCReaderReturn(w)
    \/ PoolDrop

SpecPool == InitWorkers /\ [][NextPool]_vars

\* ---- lifecycle ---------------------------------------------------------------------
Lifecycle ==
    IF pc = "startup" THEN "Created"
    ELSE IF pc \in {"readFileList", "walkDirectories", "send"} THEN "Running"
    ELSE IF pc \in {"tearDown", "wgWait"} THEN "Draining"
    ELSE IF pc \in {"printSummary", "exit"} THEN "Stopped"
    ELSE "Crashed"

TypeOK ==
    /\ pc \in {"startup", "readFileList", "walkDirectories", "send", "tearDown",
               "wgWait", "printSummary", "exit", "panic"}
    /\ wg \in 0..MaxJobs
    /\ \A w \in Workers : wpc[w] \in {"unborn", "recv", "handle", "exited"}
    /\ Len(pathQueueG) <= MaxQueue

\* ---- properties -------------------------------------------------------------------
Count(seq, x) == Cardinality({i \in DOMAIN seq : seq[i] = x})
Paths(log) == [i \in DOMAIN log |-> log[i].path]
Running(w) == wpc[w] \in {"recv", "handle"}
Stopped == pc \in {"printSummary", "exit"}
NoReturnedError == \A i \in DOMAIN handled : handled[i].outcome # "returned"

\* C1: every path put on the channel is in exactly one place - still buffered,
\* or received exactly once; a received path is held by at most one worker and
\* the handler is invoked at most once per path.
C1_ExactlyOneReceiver ==
    /\ \A i \in DOMAIN sent :
         Count(pathQueueG, sent[i]) + Count(received, sent[i]) = 1
    /\ \A i \in DOMAIN received : Count(sent, received[i]) = 1
    /\ \A i \in DOMAIN handled :
         /\ Count(Paths(handled), handled[i].path) = 1
         /\ Count(received, handled[i].path) = 1
    /\ \A w1, w2 \in Workers :
         (w1 # w2 /\ wpath[w1] # 0) => wpath[w1] # wpath[w2]
    /\ \A w \in Workers :
         wpath[w] # 0 => /\ Count(received, wpath[w]) = 1
                         /\ Count(Paths(handled), wpath[w]) = 0

\* two workers hold different paths while an earlier path has been handled
C1_Witness ==
    /\ wpath[1] # 0
    /\ wpath[2] # 0
    /\ Len(handled) >= 1

\* C2 as stated: after readFileList (input read to its end) and tearDown, the
\* handler has been invoked once per line, in input order, whatever the
\* handler returned.
C2_Original ==
    (Stopped /\ mode = "list" /\ ~stdinFailed)
        => Paths(handled) = [i \in 1..nextPath |-> i]

\* C2 amended: the handler is invoked exactly once for every line as long as no
\* invocation returns a non-nil error (an error the handler reports itself and
\* answers with nil, as fileHandler does, does not stop the scan), and the
\* invocations follow the input order when there is one worker.
C2_EveryLineHandled ==
    (Stopped /\ mode = "list" /\ ~stdinFailed /\ NoReturnedError)
        => /\ Len(handled) = nextPath
           /\ \A p \in 1..nextPath : Count(Paths(handled), p) = 1
           /\ jobCount = 1 => Paths(handled) = [i \in 1..nextPath |-> i]

\* a list of three lines was handled to the end although an earlier line met
\* an error in the handler
C2_Witness ==
    /\ pc = "exit"
    /\ mode = "list"
    /\ ~stdinFailed
    /\ nextPath = 3
    /\ Len(handled) = 3
    /\ handled[1].outcome \in {"openfail", "readfail", "handled"}

\* C3: when fileHandler fails on a path (open or read), the worker returns to
\* the receive, no other worker changes state, main does not stop, and the
\* result lines and success counters already written stay as they are.
C3_Step ==
    \A w \in Workers :
        ( /\ HandlerFunc = "fileHandler"
          /\ wpc[w] = "handle"
          /\ wpc'[w] # "handle"
          /\ Len(handled') = Len(handled) + 1
          /\ handled'[Len(handled')].outcome \in {"openfail", "readfail"} )
        => /\ wpc'[w] = "recv"
           /\ \A v \in Workers \ {w} : wpc'[v] = wpc[v] /\ wpath'[v] = wpath[v]
           /\ wg' = wg
           /\ pc' = pc
           /\ stdOut' = stdOut
           /\ fileCount' = fileCount
           /\ totalDataComputed' = totalDataComputed
           /\ fileErrorCount' = fileErrorCount + 1

C3_FailureKeepsWorker == [][C3_Step]_vars

\* after a success and then a failure the same single worker handled a third path
C3_Witness ==
    /\ HandlerFunc = "fileHandler"
    /\ jobCount = 1
    /\ Len(handled) = 3
    /\ handled[1].outcome = "ok"
    /\ handled[2].outcome \in {"openfail", "readfail"}
    /\ handled[3].outcome = "ok"
    /\ wpc[1] = "recv"

\* C4 as stated: once tearDown has returned the channel is closed and empty
\* and the wait-group counter is zero.
C4_Original ==
    Stopped => /\ closed
               /\ pathQueueG = <<>>
               /\ wg = 0

\* C4 amended: once tearDown has returned the channel is closed, the wait-group
\* counter is zero and every spawned worker has exited; the channel is empty
\* unless a handler invocation returned a non-nil error and so ended its
\* worker early (fileHandler never does).
C4_AfterTearDown ==
    Stopped => /\ closed
               /\ wg = 0
               /\ \A w \in Workers : ~Running(w)
               /\ NoReturnedError => pathQueueG = <<>>

\* tearDown has returned in a run where two workers handled three paths
C4_Witness ==
    /\ Stopped
    /\ jobCount = 2
    /\ Len(handled) = 3
    /\ NoReturnedError
    /\ wpc[1] = "exited"
    /\ wpc[2] = "exited"

C6_State ==
    /\ closeCount <= 1
    /\ closed <=> closeCount = 1
    /\ pc \in {"wgWait", "printSummary", "exit"} => closed
    /\ closed => /\ pc \in {"wgWait", "printSummary", "exit"}
                 /\ pending = 0

C6_ClosedOnce == []C6_State /\ [][closed => closed' /\ closeCount' = closeCount]_vars

\* the channel was closed after the producer had sent paths, one of them
\* still buffered at the time of the close
C6_Witness ==
    /\ closed
    /\ pc = "wgWait"
    /\ Len(sent) >= 2
    /\ pathQueueG # <<>>

\* C7: with fileHandler and fair scheduling every run reaches Stopped: the
\* producer finishes, the channel is closed, the workers exit and tearDown
\* returns.
C7_EventuallyStopped == <>Stopped

\* the part of C7 the code does satisfy: every fair run with fileHandler ends
\* stopped or in the panic of walkHandler
C7_StoppedOrCrashed == <>(Stopped \/ pc = "panic")

\* C8 as stated: startup spawns jobCount workers, and a worker exits only from
\* the receive on the closed, empty channel, decrementing the wait group once.
C8_OriginalExit ==
    \A w \in Workers :
        (wpc[w] # "exited" /\ wpc'[w] = "exited")
        => /\ wpc[w] = "recv"
           /\ closed
           /\ pathQueueG = <<>>
           /\ wg' = wg - 1

C8_Original == [][C8_OriginalExit]_vars

\* C8 amended: once startup is over exactly jobCount workers have been spawned;
\* a worker exits only from the receive on the closed, empty channel or because
\* its handler returned a non-nil error; it decrements the wait group exactly
\* once, when it exits, and never runs again.
C8_Spawned ==
    /\ pc # "startup" => Cardinality({w \in Workers : wpc[w] # "unborn"}) = jobCount
    /\ Cardinality({w \in Workers : wpc[w] # "unborn"}) <= jobCount
    /\ wg = Cardinality({w \in Workers : Running(w)})

C8_Exit ==
    \A w \in Workers :
        /\ (wpc[w] # "exited" /\ wpc'[w] = "exited")
           => /\ \/ wpc[w] = "recv" /\ closed /\ pathQueueG = <<>>
                 \/ /\ wpc[w] = "handle"
                    /\ Len(handled') = Len(handled) + 1
                    /\ handled'[Len(handled')].ret = "err"
              /\ wg' = wg - 1
        /\ wpc[w] = "exited" => wpc'[w] = "exited"
        /\ wg' < wg => \E v \in Workers : wpc[v] # "exited" /\ wpc'[v] = "exited"

C8_WorkerPool == []C8_Spawned /\ [][C8_Exit]_vars

\* both workers of a two-worker pool have drained the closed channel and exited
C8_Witness ==
    /\ jobCount = 2
    /\ pc = "exit"
    /\ wpc[1] = "exited"
    /\ wpc[2] = "exited"
    /\ NoReturnedError
    /\ Len(handled) >= 2
    /\ wg = 0

\* C9: the buffer never holds more than queueLength paths; while it is full the
\* producer stays in its send and sends nothing; a path the producer is sending
\* leaves the producer only by being put on the channel; and the paths sent are
\* exactly the ones received so far followed by the ones buffered.
C9_State ==
    /\ Len(pathQueueG) <= queueLength
    /\ sent = received \o pathQueueG
    /\ pending # 0 => pc \in {"send", "panic"}
    /\ mode = "list" =>
         sent \o (IF pending # 0 THEN <<pending>> ELSE <<>>)
             = [i \in 1..nextPath |-> i]

C9_Step ==
    /\ (pc = "send" /\ Len(pathQueueG) >= queueLength)
         => pc' = "send" /\ sent' = sent /\ pending' = pending
    /\ (pending # 0 /\ pending' # pending)
         => sent' = Append(sent, pending) /\ pathQueueG' = Append(pathQueueG, pending)

C9_Backpressure == []C9_State /\ [][C9_Step]_vars

\* the producer is blocked in its send on a full buffer
C9_Witness ==
    /\ pc = "send"
    /\ pending # 0
    /\ Len(pathQueueG) = queueLength
    /\ Len(received) >= 1

\* C10: in the directory walk, once walkHandler has seen the flag set the walk
\* is over: nothing more is sent, no further entry is enumerated and no further
\* root argument is started.
C10_State ==
    observed => /\ pc \notin {"walkDirectories", "send"}
                /\ ~walking
                /\ pending = 0

C10_Step ==
    observed => /\ sent' = sent
                /\ nextPath' = nextPath
                /\ argIdx' = argIdx

C10_StopOnInterrupt == []C10_State /\ [][C10_Step]_vars

\* the walk was cut short after a path had been sent, with a root argument
\* still unvisited, and the run went on to its end
C10_Witness ==
    /\ observed
    /\ mode = "walk"
    /\ argIdx < nArgs
    /\ Len(sent) >= 1
    /\ pc = "exit"

\* C11: in the path-list producer, once the flag is set no further line is
\* taken from the input: only a line already being sent still reaches the
\* channel.
C11_Step ==
    (mode = "list" /\ interrupted) => nextPath' = nextPath

C11_ListStopsOnInterrupt == [][C11_Step]_vars

\* C12 as stated: when the run has stopped after the flag was set, every path
\* that was put on the channel has been handled.
RECURSIVE AllHandled(_)
AllHandled(q) ==
    IF q = <<>> THEN TRUE
    ELSE Count(Paths(handled), Head(q)) = 1 /\ AllHandled(Tail(q))

C12_Original ==
    (Stopped /\ interrupted) => AllHandled(sent)

\* C12 amended: setting the flag changes nothing but the flag, and when the run
\* has stopped after the flag was set every path that was put on the channel
\* has been handled, unless a handler invocation returned a non-nil error and
\* so ended its worker.
C12_State ==
    (Stopped /\ interrupted /\ NoReturnedError)
        => /\ AllHandled(sent)
           /\ \A w \in Workers : wpath[w] = 0
           /\ pathQueueG = <<>>

C12_Step ==
    (~interrupted /\ interrupted')
        => UNCHANGED <<pc, config, channel, wg, spawned, workers, counters,
                       sinks, producer>>

C12_NoAbortOnInterrupt == []C12_State /\ [][C12_Step]_vars

\* a walk was cancelled after it had sent two paths, and the run stopped with
\* both handled
C12_Witness ==
    /\ pc = "exit"
    /\ observed
    /\ Len(sent) = 2
    /\ Len(handled) = 2
    /\ NoReturnedError

\* C13: with fileHandler, when the run has concluded fileCount + fileErrorCount
\* is the number of paths that were put on the channel.
C13_CountsMatchQueued ==
    (Stopped /\ HandlerFunc = "fileHandler")
        => fileCount + fileErrorCount = Len(sent)

\* a two-worker walk that met a directory error and an ignored entry concluded
\* with one success and one failure
C13_Witness ==
    /\ pc = "exit"
    /\ HandlerFunc = "fileHandler"
    /\ mode = "walk"
    /\ jobCount = 2
    /\ fileCount = 1
    /\ fileErrorCount = 1
    /\ directoryErrorCount + ignoredFilesCount >= 1

\* C14: with fileHandler, when the run has concluded fileCount is the number of
\* result lines and totalDataComputed is the sum of their byte counts.
RECURSIVE SumSizes(_)
SumSizes(lines) ==
    IF lines = <<>> THEN 0 ELSE Head(lines)[2] + SumSizes(Tail(lines))

C14_BytesMatchResults ==
    (Stopped /\ HandlerFunc = "fileHandler")
        => /\ fileCount = Len(stdOut)
           /\ totalDataComputed = SumSizes(stdOut)
           /\ \A i \in DOMAIN stdOut : stdOut[i][2] = Size(stdOut[i][1])

\* two workers checksummed three files, two of them non-empty
C14_Witness ==
    /\ pc = "exit"
    /\ jobCount = 2
    /\ fileCount = 3
    /\ totalDataComputed = 2

\* C15: every failure of a handled path and every traversal error puts exactly
\* one line on the error sink and increments exactly one error counter.
ErrorLines(p) ==
    Cardinality({i \in DOMAIN errOut :
                    errOut[i][2] = p
                    /\ errOut[i][1] \in {"close", "file", "dir", "fileerr"}})

C15_OneLinePerFailure ==
    /\ \A i \in DOMAIN handled :
         handled[i].outcome \in {"openfail", "readfail"}
             => ErrorLines(handled[i].path) = 1
    /\ Cardinality({i \in DOMAIN errOut :
                       errOut[i][1] \in {"close", "file", "dir", "fileerr"}})
           = fileErrorCount + directoryErrorCount

\* C16: a successfully checksummed path has one result line and no error line,
\* a failed path has no result line and one error line, and when the run has
\* concluded the number of result lines is fileCount.
ResultLines(p) == Cardinality({i \in DOMAIN stdOut : stdOut[i][1] = p})

C16_ResultXorError ==
    /\ \A i \in DOMAIN handled :
         HandlerFunc = "fileHandler" =>
            IF handled[i].outcome = "ok"
            THEN ResultLines(handled[i].path) = 1 /\ ErrorLines(handled[i].path) = 0
            ELSE ResultLines(handled[i].path) = 0 /\ ErrorLines(handled[i].path) = 1
    /\ (Stopped /\ HandlerFunc = "fileHandler") => Len(stdOut) = fileCount

\* C17: when the final read delivered bytes together with io.EOF, the result
\* is the checksum and the count of all the bytes the source delivered.
C17_EOFWithData ==
    (rpc = "returned" /\ lastRead[2] = "EOF" /\ lastRead[1] > 0)
        => /\ returned.str = Encode(Checksum(SubSeq(payload, 1, fp)))
           /\ returned.size = fp

\* C18 as stated: for a source that reports io.EOF only with 0 bytes (and can
\* never return more than the buffer holds), an input of length L is read in
\* ceil(L / (readSize*Kilo)) data-returning reads and the byte count is L.
C18_Original ==
    (rpc = "returned" /\ returned.err = "nil" /\ lastRead[1] = 0)
        => /\ dataReads = Ceil(Len(payload), readSizeG * Kilo)
           /\ returned.size = Len(payload)

\* C18 amended: for a source that fills the buffer on every call while that
\* many bytes remain (then hands out the remainder) and reports io.EOF only
\* with 0 bytes, an input of length L is read in ceil(L / (readSize*Kilo))
\* data-returning reads followed by the one read that reports io.EOF, the byte
\* count is L, and for L = 0 the result is the checksum of the empty input
\* with byte count 0.
C18_ReadCount ==
    (rpc = "returned" /\ returned.err = "nil" /\ fullReads)
        => /\ dataReads = Ceil(Len(payload), readSizeG * Kilo)
           /\ calls = dataReads + 1
           /\ returned.size = Len(payload)
           /\ Len(payload) = 0 =>
                 /\ returned.str = Encode(Checksum(<<>>))
                 /\ returned.size = 0

\* five bytes were read through a one-unit buffer in three full reads
C18_Witness ==
    /\ rpc = "returned"
    /\ returned.err = "nil"
    /\ fullReads
    /\ readSizeG = 1
    /\ Len(payload) = 2 * Kilo + 1
    /\ dataReads = 3
    /\ returned.size = Len(payload)

\* C19: whatever the split of the input into reads, a successful CRCReader
\* returns the checksum and the byte count that a single read of the whole
\* input gives.
C19_SplitInvariant ==
    (rpc = "returned" /\ returned.err = "nil")
        => /\ returned.str = Encode(Update(Checksum(<<>>), payload))
           /\ returned.size = Len(payload)

\* C20: CRCReader returns a result without error, or an error with the empty
\* string and byte count 0; the read that fails is the last one, and what was
\* summed before it is not returned.
C20_State ==
    rpc = "returned"
        => \/ returned.err = "nil" /\ returned.str # <<>> /\ lastRead[2] = "EOF"
           \/ returned.err # "nil" /\ returned.str = <<>> /\ returned.size = 0
                /\ lastRead[2] = "fail"

C20_Step ==
    /\ (calls' = calls + 1 /\ lastRead'[2] = "fail")
           => rpc' = "returned" /\ returned' = [str |-> <<>>, size |-> 0, err |-> "fail"]
    /\ rpc = "returned" => calls' = calls

C20_ResultXorError == []C20_State /\ [][C20_Step]_vars

\* a read failed after two reads had already been summed
C20_Witness ==
    /\ rpc = "returned"
    /\ returned = [str |-> <<>>, size |-> 0, err |-> "fail"]
    /\ dataReads >= 2
    /\ fileSize > 0
    /\ checksum # Checksum(<<>>)

\* C21: when the path-list source has failed with a read error and the
\* producer has ended its loop, the error is on the error sink, once, and
\* every line read was put on the channel.
C21_ReadErrorReported ==
    (mode = "list" /\ stdinFailed /\ pc \notin {"readFileList", "send"})
        => /\ Count(errOut, <<"stdin", 0>>) = 1
           /\ Len(sent) = nextPath

\* C22: a traversal error handed to walkHandler (the flag not seen) never
\* aborts the run: it is reported on the error sink under the entry's kind and
\* the run goes on.
C22_NoEnumerationAbort ==
    (mode = "walk" /\ entry.err /\ ~observed)
        => /\ pc # "panic"
           /\ \E i \in DOMAIN errOut :
                errOut[i] = <<IF entry.kind = "dir" THEN "dir" ELSE "fileerr",
                              nextPath>>

\* C23: a call of walkHandler with the flag unset does exactly one of: on an
\* error, increment directoryErrorCount (directory) or fileErrorCount (other
\* entry) and enqueue nothing; on a directory, change no counter and enqueue
\* nothing; on a non-regular file, increment ignoredFilesCount and enqueue
\* nothing; on a regular file, start the send of its path and change no
\* counter.
C23_Step ==
    (mode = "walk" /\ nextPath' = nextPath + 1 /\ ~interrupted)
        => IF entry'.err
           THEN /\ IF entry'.kind = "dir"
                   THEN /\ directoryErrorCount' = directoryErrorCount + 1
                        /\ UNCHANGED fileErrorCount
                   ELSE /\ fileErrorCount' = fileErrorCount + 1
                        /\ UNCHANGED directoryErrorCount
                /\ UNCHANGED <<fileCount, ignoredFilesCount, totalDataComputed,
                               pending, pathQueueG, sent>>
           ELSE IF entry'.kind = "dir"
           THEN UNCHANGED <<counters, pending, pathQueueG, sent>>
           ELSE IF entry'.kind = "other"
           THEN /\ ignoredFilesCount' = ignoredFilesCount + 1
                /\ UNCHANGED <<fileCount, fileErrorCount, directoryErrorCount,
                               totalDataComputed, pending, pathQueueG, sent>>
           ELSE /\ entry'.kind = "regular"
                /\ pending' = nextPath'
                /\ pc' = "send"
                /\ UNCHANGED counters

C23_WalkStepCases == [][C23_Step]_vars

\* C24: the flag never goes back from true to false, and the step that sets
\* it changes nothing else: it is the interrupt goroutine's store, no step of
\* the producer, the workers, the summary or tearDown.
C24_Step ==
    /\ interrupted => interrupted'
    /\ interrupted' # interrupted
           => UNCHANGED <<pc, config, channel, wg, spawned, workers, counters,
                          sinks, producer>>

C24_FlagSetOnce == [][C24_Step]_vars

\* the flag was set during the walk, seen by the producer, and is still set
\* when the run has concluded
C24_Witness ==
    /\ pc = "exit"
    /\ interrupted
    /\ observed
    /\ Len(handled) >= 1

\* C25: the lifecycle moves from Created to Running to Draining to Stopped,
\* one state at a time and never back (a crash ends the run where it is);
\* every worker is started before the producer sends or scans anything, and
\* the channel is open and unused while the lifecycle is Created.
LifecycleRank ==
    IF Lifecycle = "Created" THEN 0
    ELSE IF Lifecycle = "Running" THEN 1
    ELSE IF Lifecycle = "Draining" THEN 2
    ELSE IF Lifecycle = "Stopped" THEN 3
    ELSE 4

C25_Step ==
    pc' # "panic" => LifecycleRank' \in {LifecycleRank, LifecycleRank + 1}

C25_State ==
    /\ LifecycleRank >= 1
          => /\ spawned = jobCount
             /\ \A w \in 1..jobCount : wpc[w] # "unborn"
    /\ Lifecycle = "Created"
          => ~closed /\ sent = <<>> /\ pending = 0 /\ nextPath = 0

C25_LifecycleForward == []C25_State /\ [][C25_Step]_vars

\* a two-worker run went through all four states with paths handled
C25_Witness ==
    /\ Lifecycle = "Stopped"
    /\ jobCount = 2
    /\ closed
    /\ Len(sent) >= 2
    /\ Len(handled) = Len(sent)

\* C26: a summary request can arrive whenever the run is Running or Draining,
\* and it changes nothing but the summary sink: not the channel, the counters,
\* the flag, the workers or the position of main.
C26_State ==
    (Lifecycle \in {"Running", "Draining"} /\ summaries < MaxSummaries)
        => ENABLED SummaryRequest

C26_Step ==
    summaries' # summaries
        => UNCHANGED <<pc, config, channel, wg, interrupted, spawned, workers,
                       counters, stdOut, errOut, finalSummary, producer>>

C26_SummaryFrame == []C26_State /\ [][C26_Step]_vars

\* a summary was rendered while the channel held a path and a worker another
C26_Witness ==
    /\ summaries = 1
    /\ Lifecycle = "Running"
    /\ pathQueueG # <<>>
    /\ \E w \in Workers : wpc[w] = "handle"
    /\ fileCount >= 1

\* C29: no step decreases any of the five counters.
C29_Step ==
    /\ fileCount' >= fileCount
    /\ fileErrorCount' >= fileErrorCount
    /\ directoryErrorCount' >= directoryErrorCount
    /\ ignoredFilesCount' >= ignoredFilesCount
    /\ totalDataComputed' >= totalDataComputed

C29_CountersMonotone == [][C29_Step]_vars

\* a walk concluded after a summary request with a file checksummed, a file
\* failed and an entry ignored
C29_Witness ==
    /\ pc = "exit"
    /\ summaries = 1
    /\ fileCount >= 1
    /\ totalDataComputed >= 1
    /\ fileErrorCount >= 1
    /\ ignoredFilesCount >= 1

\* C30 as stated: whenever some worker has exited, the channel is closed and
\* empty.
C30_Original ==
    (\E w \in Workers : wpc[w] = "exited") => (closed /\ pathQueueG = <<>>)

\* C30 amended: a worker exits only on a receive from the closed and empty
\* channel, or right after a handler invocation that returned a non-nil
\* error; while no invocation has returned one, an exited worker means the
\* channel is closed and empty.
C30_State ==
    (NoReturnedError /\ \E w \in Workers : wpc[w] = "exited")
        => (closed /\ pathQueueG = <<>>)

C30_Step ==
    \A w \in Workers :
        (wpc[w] # "exited" /\ wpc'[w] = "exited")
            => \/ wpc[w] = "recv" /\ closed /\ pathQueueG = <<>>
               \/ /\ wpc[w] = "handle"
                  /\ Len(handled') = Len(handled) + 1
                  /\ handled'[Len(handled')].ret # "nil"

C30_ExitOnClosedEmpty == []C30_State /\ [][C30_Step]_vars

\* both workers exited after the paths were handled without a returned error
C30_Witness ==
    /\ jobCount = 2
    /\ \A w \in Workers : wpc[w] = "exited"
    /\ NoReturnedError
    /\ Len(handled) >= 2

\* C27: a worker inside a CRCReader call holds one buffer, the same from Get
\* to the return, which is not in the pool and not held by another worker; the
\* return, at io.EOF or on a read error, puts that buffer back; outside a call
\* a worker holds none.
C27_State ==
    /\ \A w \in Workers :
         IF cpc[w] = "reading"
         THEN buf[w] # 0 /\ buf[w] \in checkedOut /\ buf[w] \notin bufferPool
         ELSE buf[w] = 0
    /\ \A w1, w2 \in Workers :
         (w1 # w2 /\ buf[w1] # 0) => buf[w1] # buf[w2]

C27_Step ==
    \A w \in Workers :
        cpc[w] = "reading"
            => IF cpc'[w] = "reading"
               THEN buf'[w] = buf[w]
               ELSE /\ buf[w] \in bufferPool'
                    /\ buf[w] \notin checkedOut'
                    /\ buf'[w] = 0

C27_BufferPerCall == []C27_State /\ [][C27_Step]_vars

\* one worker's call ended at io.EOF and the other's on a read error, and both
\* buffers are back in the pool
C27_Witness ==
    /\ jobCount = 2
    /\ lastExit = <<"EOF", "fail">>
    /\ \A w \in Workers : cpc[w] = "idle"
    /\ checkedOut = {}
    /\ bufferPool = {1, 2}
    /\ crcCalls >= 3

\* C28: at most jobCount buffers are out of the pool, however many calls have
\* been made, and a worker at Get can always go on, whether the pool holds a
\* buffer or not.
C28_BoundedCheckout ==
    /\ Cardinality(checkedOut) <= jobCount
    /\ \A w \in Workers : cpc[w] = "get" => ENABLED PoolGet(w)

\* in the fourth call of two workers both hold a buffer, and only two buffers
\* were ever made
C28_Witness ==
    /\ jobCount = 2
    /\ crcCalls = 4
    /\ Cardinality(checkedOut) = 2
    /\ allocated = 2

\* C31: the paths leave the channel in the order the producer put them in:
\* what the workers have received, in the order of the receives, is the
\* beginning of what was sent, and the buffer holds the rest, in order.
C31_FifoOrder ==
    /\ Len(received) <= Len(sent)
    /\ received = SubSeq(sent, 1, Len(received))
    /\ pathQueueG = SubSeq(sent, Len(received) + 1, Len(sent))

\* with two workers, the second worker got the first path and the first
\* worker the second while the third was buffered behind it
C31_Witness ==
    /\ jobCount = 2
    /\ queueLength = 2
    /\ sent = <<1, 2, 3>>
    /\ received = <<1, 2>>
    /\ wpath = <<2, 1>>
    /\ pathQueueG = <<3>>

\* C32: with fileHandler every handler invocation returns nil, whatever the
\* outcome of the open and of the read, and no worker has left its loop while
\* the channel is open.
C32_DefaultHandlerKeepsWorkers ==
    HandlerFunc = "fileHandler"
        => /\ \A i \in DOMAIN handled : handled[i].ret = "nil"
           /\ (\E w \in Workers : wpc[w] = "exited") => closed

\* a failed open and a failed read were handled and both workers are still
\* in their loops on the open channel
C32_Witness ==
    /\ HandlerFunc = "fileHandler"
    /\ jobCount = 2
    /\ ~closed
    /\ \E i, j \in DOMAIN handled :
         handled[i].outcome = "openfail" /\ handled[j].outcome = "readfail"
    /\ \A w \in Workers : wpc[w] = "recv"

\* C33: whenever the producer waits in a send, the send eventually goes
\* through, for any handler and any number of workers.
C33_SendNeverStuck == (pc = "send") ~> (pc # "send")

\* C34: every path sent is in exactly one place: in the buffer, held by a
\* worker, or handled; a worker holds at most one path and only started
\* workers hold one.
Held == {w \in Workers : wpath[w] # 0}

C34_Conservation ==
    /\ Len(sent) = Len(pathQueueG) + Cardinality(Held) + Len(handled)
    /\ Cardinality(Held) <= jobCount
    /\ \A w \in Held : w <= jobCount /\ wpc[w] = "handle"

\* three paths sent: one buffered, one held, one handled
C34_Witness ==
    /\ Len(sent) = 3
    /\ Len(pathQueueG) = 1
    /\ Cardinality(Held) = 1
    /\ Len(handled) = 1
    /\ jobCount = 2

====
